---- MODULE Spec2Model ----
(***************************************************************************)
(* GATE 2026 rank checker (src/main.py): a one-shot startup fetch, then a  *)
(* probe -> fetch -> format -> notify -> sleep loop with a bounded rolling *)
(* history of normalized marks.                                            *)
(*                                                                         *)
(* Marks are integers in thousandths of a mark (50000 is 50.0), so that    *)
(* Python's round(x, 2) is rounding to the nearest multiple of 10.  Python *)
(* values are tagged records; a notification text is a record of what it   *)
(* says (its kind and the rendered fields).                                *)
(***************************************************************************)
EXTENDS Integers, Sequences, FiniteSets, TLC

VARIABLES
    env,            \* os.environ as read at import (lines 32, 38, 44)
    pc,             \* where main() is: main, run, sleep, returned, raised, idle
    response_data,  \* main()'s response_data (line 190)
    norm_history,   \* _norm_history (line 54)
    appended,       \* ghost: every value ever passed to _norm_history.append
    cycles,         \* ghost: number of run_once calls made
    successes,      \* ghost: number of cycles that got past the normalized_mark check
    calls,          \* ghost: outbound calls made so far, per endpoint
    log,            \* ghost: what the last step did
    slept,          \* argument of the last time.sleep (0: none yet)
    args,           \* pure-function harness: the inputs
    result          \* pure-function harness: the output

vars == <<env, pc, response_data, norm_history, appended, cycles, successes,
          calls, log, slept, args, result>>

mainvars == <<env, pc, response_data, norm_history, appended, cycles, successes,
              calls, log, slept>>

-----------------------------------------------------------------------------
(* Bounds of the model *)

\* run_once calls explored (the loop itself is unbounded)
MaxCycles == 5

\* fmt_delta is explored on marks of at most MarkSpan thousandths either side of 0
MarkSpan == 12

-----------------------------------------------------------------------------
(* Python values *)

None == [t |-> "None"]
\* a key that is not in a dict (not a Python value: what dict.get falls back from)
Absent == [t |-> "absent"]
Num(n) == [t |-> "num", v |-> n]
Str(s) == [t |-> "str", v |-> s]
\* a JSON body that parsed but is not an object
List == [t |-> "list"]
Dict(items) == [t |-> "dict", items |-> items]

IsNumber(x) == x.t = "num"

\* dict.get(key): None when the key is missing
get(d, k) == IF d.items[k].t = "absent" THEN None ELSE d.items[k]

\* dict.get(key, default)
get_default(d, k, default) == IF d.items[k].t = "absent" THEN default ELSE d.items[k]

\* Python's `in` on a tuple of three: x compares equal to one of them
None_in(a, b, c) == a.t = "None" \/ b.t = "None" \/ c.t = "None"

RECURSIVE SumV(_)
\* sum(history) over numbers
SumV(s) == IF s = <<>> THEN 0 ELSE Head(s).v + SumV(Tail(s))

AllNumbers(s) == \A i \in 1..Len(s) : IsNumber(s[i])

\* round(num / den, 2) in thousandths, den > 0: the nearest multiple of 10.
\* At an exact decimal tie the binary float is on one side or the other
\* (round(0.005, 2) = 0.01, round(0.015, 2) = 0.01): tie_up says which.
round2(num, den, tie_up) ==
    LET q == num \div (10 * den)
        r == num % (10 * den)
    IN  IF 2 * r < 10 * den THEN 10 * q
        ELSE IF 2 * r > 10 * den THEN 10 * (q + 1)
        ELSE IF tie_up THEN 10 * (q + 1) ELSE 10 * q

-----------------------------------------------------------------------------
(* Module-level configuration, lines 27-54 *)

Unset == "<unset>"

RESPONSE_SHEET_URL == env.RESPONSE_SHEET_URL
TELEGRAM_BOT_TOKEN == env.TELEGRAM_BOT_TOKEN
TELEGRAM_CHAT_ID == env.TELEGRAM_CHAT_ID

\* a mutant: the interval read from the environment, falling back to 15 minutes
INTERVAL_SECONDS_fromEnv == IF env.INTERVAL_SECONDS = 0 THEN 15 * 60 ELSE env.INTERVAL_SECONDS

INTERVAL_SECONDS == 15 * 60

\* the number in _RETRY_MSG, "Will retry in {INTERVAL_SECONDS // 60} minutes."
RETRY_MSG == INTERVAL_SECONDS \div 60

HISTORY_SIZE == (60 * 60) \div INTERVAL_SECONDS

\* a mutant: the new sample is dropped when the buffer is full
append_dropNew(h, x) == IF Len(h) < HISTORY_SIZE THEN Append(h, x) ELSE h

\* deque(maxlen=_HISTORY_SIZE).append: the head is evicted when full
append(h, x) ==
    IF HISTORY_SIZE = 0 THEN h
    ELSE IF Len(h) < HISTORY_SIZE THEN Append(h, x)
    ELSE Append(Tail(h), x)

\* python truthiness of an os.environ.get result: None and "" are falsy
Falsy(s) == s = Unset \/ s = ""

\* a mutant: the chat id is not validated
config_missing_noChat == Falsy(RESPONSE_SHEET_URL) \/ Falsy(TELEGRAM_BOT_TOKEN)

\* line 182
config_missing ==
    Falsy(RESPONSE_SHEET_URL) \/ Falsy(TELEGRAM_BOT_TOKEN) \/ Falsy(TELEGRAM_CHAT_ID)

-----------------------------------------------------------------------------
(* The helpers, lines 57-142 *)

\* a mutant: the probe's result is ignored
is_internet_up_always(sock) == TRUE

\* TCP probe: True when connect returned, False on OSError
is_internet_up(sock) == sock = "connected"

\* POST to the bot; every exception is caught and printed.  Nothing is raised
\* and nothing is returned: `delivered` is what the far end saw.
send_telegram(post, message) ==
    [raised |-> "", delivered |-> post = "ok", text |-> message]

\* GET and parse: None on a transport failure, a non-success status or an
\* unparsable body, else whatever JSON value the body holds (JSON null is None)
get_json(http) == IF http.status = "ok" THEN http.body ELSE None

NA == [txt |-> "N/A"]

\* a mutant: the value is interpolated unconditionally (None prints as "None")
fmt_noCheck(val, suffix) == [txt |-> "value", val |-> val, suffix |-> suffix]

\* f"{val}{suffix}" if val is not None else "N/A"
fmt(val, suffix) ==
    IF val.t # "None" THEN [txt |-> "value", val |-> val, suffix |-> suffix] ELSE NA

\* a mutant: the sign is taken from the unrounded difference
fmt_delta_signOfRaw(normalised, raw, tie_up) ==
    IF normalised.t = "None" \/ raw.t = "None" THEN [raised |-> "", txt |-> "N/A", delta |-> 0]
    ELSE IF ~IsNumber(normalised) \/ ~IsNumber(raw) THEN [raised |-> "TypeError", txt |-> "", delta |-> 0]
    ELSE LET delta == round2(normalised.v - raw.v, 1, tie_up)
         IN  IF normalised.v - raw.v > 0 THEN [raised |-> "", txt |-> "up +", delta |-> delta]
             ELSE IF normalised.v - raw.v < 0 THEN [raised |-> "", txt |-> "down ", delta |-> delta]
             ELSE [raised |-> "", txt |-> "no change", delta |-> 0]

\* lines 100-110; "up +" is the up-arrow text, "down " the down-arrow text
fmt_delta(normalised, raw, tie_up) ==
    IF normalised.t = "None" \/ raw.t = "None" THEN [raised |-> "", txt |-> "N/A", delta |-> 0]
    ELSE IF ~IsNumber(normalised) \/ ~IsNumber(raw) THEN [raised |-> "TypeError", txt |-> "", delta |-> 0]
    ELSE LET delta == round2(normalised.v - raw.v, 1, tie_up)
         IN  IF delta > 0 THEN [raised |-> "", txt |-> "up +", delta |-> delta]
             ELSE IF delta < 0 THEN [raised |-> "", txt |-> "down ", delta |-> delta]
             ELSE [raised |-> "", txt |-> "no change", delta |-> 0]

\* lines 117-121: the "1hr Mean" cell; "--" is the dash shown for no data
rolling_str(history, tie_up) ==
    IF history # <<>>
    THEN [txt |-> "mean", mean |-> round2(SumV(history), Len(history), tie_up),
          k |-> Len(history), N |-> HISTORY_SIZE]
    ELSE [txt |-> "--", mean |-> 0, k |-> 0, N |-> HISTORY_SIZE]

\* lines 113-142.  rd and rk are dicts.  sum() raises on a non-number in the
\* history, and fmt_delta on a non-number mark.
format_message(rd, rk, history, tie_mean, tie_delta) ==
    LET norm_mark == get(rk, "normalized_mark")
        raw_marks == get(rd, "total_marks")
        delta == fmt_delta(norm_mark, raw_marks, tie_delta)
    IN  IF history # <<>> /\ ~AllNumbers(history) THEN [raised |-> "TypeError", msg |-> None]
        ELSE IF delta.raised # "" THEN [raised |-> delta.raised, msg |-> None]
        ELSE [raised |-> "",
              msg |-> [kind |-> "report",
                       raw |-> fmt(raw_marks, ""),
                       norm |-> fmt(norm_mark, ""),
                       delta |-> delta,
                       rolling |-> rolling_str(history, tie_mean),
                       score |-> fmt(get(rk, "score_estimate"), ""),
                       rank |-> fmt(get(rk, "rank_estimate"), ""),
                       norm_rank |-> fmt(get(rk, "rank_normalized"), ""),
                       set_label |-> get_default(rd, "set", Str("?")),
                       rank_in_set |-> fmt(get(rk, "rank_in_set"), ""),
                       total_in_set |-> fmt(get(rk, "total_in_set"), ""),
                       all_sets |-> fmt(get(rk, "total_in_all_sets"), ""),
                       correct |-> fmt(get(rd, "total_positive"), ""),
                       correct_pct |-> fmt(get(rd, "total_positive_percentage"), "%"),
                       neg1 |-> fmt(get(rd, "one_mark_negative"), ""),
                       neg2 |-> fmt(get(rd, "two_marks_negative"), ""),
                       attempted |-> fmt(get(rd, "total_attempted"), "")]]

-----------------------------------------------------------------------------
(* The notification texts, lines 153, 160, 167, 204 *)

InternetDownMsg == [kind |-> "internet_down", retry_minutes |-> RETRY_MSG]
ApiUnreachableMsg == [kind |-> "api_unreachable", retry_minutes |-> RETRY_MSG]
MissingNormMsg == [kind |-> "missing_normalized_mark", retry_minutes |-> RETRY_MSG]
StartedMsg(marks, branch, set_num) ==
    [kind |-> "started", marks |-> marks, branch |-> branch, set_num |-> set_num,
     minutes |-> INTERVAL_SECONDS \div 60]

-----------------------------------------------------------------------------
(* run_once, lines 145-177 *)

\* what one call of run_once did
Outcome(raised, history, sent, request, rank_data, samples) ==
    [raised |-> raised, history |-> history, sent |-> sent, request |-> request,
     rank_data |-> rank_data, samples |-> samples]

\* a mutant: the report is formatted before the sample is appended
format_then_append(history, rd, rk, norm_mark, tie_mean, tie_delta) ==
    [history |-> append(history, norm_mark),
     fm |-> format_message(rd, rk, history, tie_mean, tie_delta)]

\* lines 172-175: append, then format from the updated history
append_then_format(history, rd, rk, norm_mark, tie_mean, tie_delta) ==
    LET h == append(history, norm_mark)
    IN  [history |-> h, fm |-> format_message(rd, rk, h, tie_mean, tie_delta)]

\* a mutant: the sample is appended before it is checked for None
run_once_appendFirst(history, rd, sock, http, tie_mean, tie_delta) ==
    IF \E k \in {"total_marks", "set", "branch"} : rd.items[k].t = "absent"
    THEN Outcome("KeyError", history, <<>>, <<>>, Absent, <<>>)
    ELSE IF ~is_internet_up(sock)
    THEN Outcome("", history, <<InternetDownMsg>>, <<>>, Absent, <<>>)
    ELSE LET rank_data == get_json(http)
             request == <<[mymarks |-> rd.items["total_marks"], set_num |-> rd.items["set"],
                           branch |-> rd.items["branch"]]>>
         IN  IF rank_data.t = "None"
             THEN Outcome("", history, <<ApiUnreachableMsg>>, request, rank_data, <<>>)
             ELSE IF rank_data.t # "dict"
             THEN Outcome("AttributeError", history, <<>>, request, rank_data, <<>>)
             ELSE LET norm_mark == get(rank_data, "normalized_mark")
                      af == append_then_format(history, rd, rank_data, norm_mark,
                                               tie_mean, tie_delta)
                  IN  IF norm_mark.t = "None"
                      THEN Outcome("", af.history, <<MissingNormMsg>>, request, rank_data, <<norm_mark>>)
                      ELSE IF af.fm.raised # ""
                      THEN Outcome(af.fm.raised, af.history, <<>>, request, rank_data, <<norm_mark>>)
                      ELSE Outcome("", af.history, <<af.fm.msg>>, request, rank_data, <<norm_mark>>)

\* One polling cycle.  sock is what the probe's connect did, http what the GET
\* to the rank endpoint does if it is made; the ties are the float's side at an
\* exact rounding tie.  `sent` holds the texts handed to send_telegram,
\* `request` the GETs made to the rank endpoint, `samples` the values passed to
\* _norm_history.append, `raised` the exception that left run_once ("" when it
\* returned).
run_once(history, rd, sock, http, tie_mean, tie_delta) ==
    IF \E k \in {"total_marks", "set", "branch"} : rd.items[k].t = "absent"
    THEN Outcome("KeyError", history, <<>>, <<>>, Absent, <<>>)
    ELSE IF ~is_internet_up(sock)
    THEN Outcome("", history, <<InternetDownMsg>>, <<>>, Absent, <<>>)
    ELSE LET rank_data == get_json(http)
             request == <<[mymarks |-> rd.items["total_marks"], set_num |-> rd.items["set"],
                           branch |-> rd.items["branch"]]>>
         IN  IF rank_data.t = "None"
             THEN Outcome("", history, <<ApiUnreachableMsg>>, request, rank_data, <<>>)
             ELSE IF rank_data.t # "dict"
             THEN Outcome("AttributeError", history, <<>>, request, rank_data, <<>>)
             ELSE LET norm_mark == get(rank_data, "normalized_mark")
                  IN  IF norm_mark.t = "None"
                      THEN Outcome("", history, <<MissingNormMsg>>, request, rank_data, <<>>)
                      ELSE LET af == append_then_format(history, rd, rank_data, norm_mark,
                                                        tie_mean, tie_delta)
                           IN  IF af.fm.raised # ""
                               THEN Outcome(af.fm.raised, af.history, <<>>, request, rank_data, <<norm_mark>>)
                               ELSE Outcome("", af.history, <<af.fm.msg>>, request, rank_data, <<norm_mark>>)

-----------------------------------------------------------------------------
(* What the outside world can do *)

EnvStrings == {Unset, "", "set"}
\* an interval override in the environment, in seconds (0: none)
EnvIntervals == {0, 240}

Environments ==
    [RESPONSE_SHEET_URL : EnvStrings, TELEGRAM_BOT_TOKEN : EnvStrings,
     TELEGRAM_CHAT_ID : EnvStrings, INTERVAL_SECONDS : EnvIntervals]

SockResults == {"connected", "OSError"}
PostResults == {"ok", "HTTPError"}
HttpFailures ==
    {[status |-> st, body |-> None] : st \in {"ConnectionError", "HTTPError", "JSONDecodeError"}}
Ok(body) == [status |-> "ok", body |-> body]

RdKeys == {"total_marks", "set", "branch", "total_positive", "total_positive_percentage",
           "one_mark_negative", "two_marks_negative", "total_attempted"}
RkKeys == {"normalized_mark", "score_estimate", "rank_estimate", "rank_normalized",
           "rank_in_set", "total_in_set", "total_in_all_sets"}

\* a response-sheet record with the breakdown fields present
Sheet(marks, set_num, branch) ==
    Dict([k \in RdKeys |->
            CASE k = "total_marks" -> marks
              [] k = "set" -> set_num
              [] k = "branch" -> branch
              [] k = "total_positive_percentage" -> Num(61500)
              [] OTHER -> Num(40)])

SheetBodies ==
    {List} \cup
    {Sheet(m, s, b) : m \in {Absent, None, Num(45500), Str("45.5")},
                      s \in {Absent, None, Num(2)},
                      b \in {Absent, None, Str("CS")}}

\* a rank estimate with the optional fields present
Rank(norm_mark) ==
    Dict([k \in RkKeys |-> IF k = "normalized_mark" THEN norm_mark ELSE Num(1234)])

EmptyDict(keys) == Dict([k \in keys |-> Absent])

\* normalized marks the rank endpoint reports, in thousandths
Marks == {50000, 50010, 52000}

RankBodies ==
    {None, List, EmptyDict(RkKeys), Rank(None), Rank(Str("50.0"))}
    \cup {Rank(Num(m)) : m \in Marks}

-----------------------------------------------------------------------------
(* main, lines 180-209 *)

NoCalls == [sheet |-> 0, rank |-> 0, probe |-> 0, telegram |-> 0]
NoLog == [step |-> "none"]
Idle == [fn |-> "none"]

\* a mutant: only the marks are checked
fields_missing_marksOnly(marks, set_num, branch) == marks.t = "None"

\* line 199: None in (marks, set_num, branch)
fields_missing(marks, set_num, branch) == None_in(marks, set_num, branch)

Init ==
    /\ env \in Environments
    /\ pc = "main"
    /\ response_data = Absent
    /\ norm_history = <<>>
    /\ appended = <<>>
    /\ cycles = 0
    /\ successes = 0
    /\ calls = NoCalls
    /\ log = NoLog
    /\ slept = 0
    /\ args = Idle
    /\ result = Idle

\* lines 182-204: validate the configuration, fetch the response sheet once,
\* check its fields, send the "started" text
MainStartup ==
    /\ pc = "main"
    /\ UNCHANGED <<env, norm_history, appended, cycles, successes, slept, args, result>>
    /\ IF config_missing
       THEN /\ pc' = "returned"
            /\ log' = [step |-> "startup", why |-> "config", sent |-> <<>>]
            /\ UNCHANGED <<response_data, calls>>
       ELSE \E http \in HttpFailures \cup {Ok(b) : b \in SheetBodies}, post \in PostResults :
            LET rd == get_json(http)
                marks == get(rd, "total_marks")
                set_num == get(rd, "set")
                branch == get(rd, "branch")
            IN  /\ response_data' = rd
                /\ IF rd.t = "None"
                   THEN /\ pc' = "returned"
                        /\ log' = [step |-> "startup", why |-> "fetch", sent |-> <<>>]
                        /\ calls' = [calls EXCEPT !.sheet = @ + 1]
                   ELSE IF rd.t # "dict"
                   THEN /\ pc' = "raised"
                        /\ log' = [step |-> "startup", why |-> "AttributeError", sent |-> <<>>]
                        /\ calls' = [calls EXCEPT !.sheet = @ + 1]
                   ELSE IF fields_missing(marks, set_num, branch)
                   THEN /\ pc' = "returned"
                        /\ log' = [step |-> "startup", why |-> "fields", sent |-> <<>>]
                        /\ calls' = [calls EXCEPT !.sheet = @ + 1]
                   ELSE /\ pc' = "run"
                        /\ log' = [step |-> "startup", why |-> "",
                                   sent |-> <<send_telegram(post, StartedMsg(marks, branch, set_num))>>]
                        /\ calls' = [calls EXCEPT !.sheet = @ + 1, !.telegram = @ + 1]

\* What a GET to the rank endpoint would do.  With the probe's host out of
\* reach the GET, were it made, is given the transport failure.
RankHttp(sock) ==
    IF sock = "connected" THEN HttpFailures \cup {Ok(b) : b \in RankBodies}
    ELSE {[status |-> "ConnectionError", body |-> None]}

\* line 207: one call of run_once.  The normalized marks of RankBodies are
\* multiples of 0.01 and so is the raw mark, so that only the mean can land on
\* a rounding tie: one tie_up serves both roundings.
RunOnce ==
    /\ pc = "run"
    /\ cycles < MaxCycles
    /\ \E sock \in SockResults, post \in PostResults, tie_up \in BOOLEAN :
       \E http \in RankHttp(sock) :
          LET o == run_once(norm_history, response_data, sock, http, tie_up, tie_up)
              present == o.rank_data.t = "dict" /\ get(o.rank_data, "normalized_mark").t # "None"
          IN  /\ norm_history' = o.history
              /\ appended' = appended \o o.samples
              /\ cycles' = cycles + 1
              /\ successes' = IF present THEN successes + 1 ELSE successes
              /\ calls' = [calls EXCEPT !.probe = @ + 1,
                                        !.rank = @ + Len(o.request),
                                        !.telegram = @ + Len(o.sent)]
              /\ log' = [step |-> "run_once", sock |-> sock, request |-> o.request,
                         rank_data |-> o.rank_data, raised |-> o.raised,
                         samples |-> o.samples,
                         sent |-> [i \in 1..Len(o.sent) |-> send_telegram(post, o.sent[i])],
                         history_before |-> norm_history]
              /\ pc' = IF o.raised = "" THEN "sleep" ELSE "raised"
    /\ UNCHANGED <<env, response_data, slept, args, result>>

\* lines 208-209: time.sleep(INTERVAL_SECONDS), then round the loop
Sleep ==
    /\ pc = "sleep"
    /\ slept' = INTERVAL_SECONDS
    /\ pc' = "run"
    /\ UNCHANGED <<env, response_data, norm_history, appended, cycles, successes, calls,
                   log, args, result>>

Next == MainStartup \/ RunOnce \/ Sleep

Spec == Init /\ [][Next]_vars

-----------------------------------------------------------------------------
(* format_message and fmt_delta on their own *)

\* the polling program is not running
MainIdle ==
    /\ env = [RESPONSE_SHEET_URL |-> Unset, TELEGRAM_BOT_TOKEN |-> Unset,
              TELEGRAM_CHAT_ID |-> Unset, INTERVAL_SECONDS |-> 0]
    /\ pc = "idle"
    /\ response_data = Absent
    /\ norm_history = <<>>
    /\ appended = <<>>
    /\ cycles = 0
    /\ successes = 0
    /\ calls = NoCalls
    /\ log = NoLog
    /\ slept = 0

\* a key is missing, or holds a sample value
Optional(v) == {Absent, v}
\* a key is missing, holds null, or holds a sample value
Nullable(v) == {Absent, None, v}

\* response-sheet records with any subset of the fields format_message reads
FormatRds ==
    {Dict([total_marks |-> m, set |-> s, branch |-> Str("CS"), total_positive |-> tp,
           total_positive_percentage |-> pp, one_mark_negative |-> n1,
           two_marks_negative |-> n2, total_attempted |-> ta]) :
        m \in Nullable(Num(45500)), s \in Nullable(Num(2)), tp \in Optional(Num(40)),
        pp \in Optional(Num(61500)), n1 \in Optional(Num(3)), n2 \in Optional(Num(2)),
        ta \in Optional(Num(52))}

\* rank estimates with any subset of their fields
FormatRks ==
    {Dict([normalized_mark |-> nm, score_estimate |-> se, rank_estimate |-> re,
           rank_normalized |-> rn, rank_in_set |-> ris, total_in_set |-> tis,
           total_in_all_sets |-> tas]) :
        nm \in Nullable(Num(50000)), se \in Optional(Num(612)), re \in Optional(Num(1234)),
        rn \in Optional(Num(1200)), ris \in Optional(Num(600)), tis \in Optional(Num(90000)),
        tas \in Optional(Num(180000))}

FormatHistories == {<<>>, <<Num(50000)>>}

InitFormat ==
    /\ MainIdle
    /\ args \in {[fn |-> "format_message", rd |-> rd] : rd \in FormatRds}
    /\ result = Idle

\* one call format_message(rd, rk, history)
FormatMessage ==
    /\ args.fn = "format_message"
    /\ result = Idle
    /\ \E rk \in FormatRks, history \in FormatHistories, tie_up \in BOOLEAN :
          result' = [fn |-> "format_message", rk |-> rk, history |-> history,
                     out |-> format_message(args.rd, rk, history, tie_up, tie_up)]
    /\ UNCHANGED <<mainvars, args>>

SpecFormat == InitFormat /\ [][FormatMessage]_vars

\* what fmt_delta is called with: None, a non-number, or a mark in thousandths
DeltaValues == {None, Str("45.5")} \cup {Num(m) : m \in (0 - MarkSpan)..MarkSpan}

InitDelta ==
    /\ MainIdle
    /\ args \in {[fn |-> "fmt_delta", normalised |-> n, raw |-> r] :
                    n \in DeltaValues, r \in DeltaValues}
    /\ result = Idle

\* one call fmt_delta(normalised, raw)
FmtDelta ==
    /\ args.fn = "fmt_delta"
    /\ result = Idle
    /\ \E tie_up \in BOOLEAN :
          result' = [fn |-> "fmt_delta", out |-> fmt_delta(args.normalised, args.raw, tie_up)]
    /\ UNCHANGED <<mainvars, args>>

SpecDelta == InitDelta /\ [][FmtDelta]_vars

-----------------------------------------------------------------------------
(* Properties of the polling loop, under Spec *)

Min(a, b) == IF a < b THEN a ELSE b
Abs(x) == IF x < 0 THEN 0 - x ELSE x

\* the last step was a run_once call
InCycle == log.step = "run_once"

\* the texts handed to send_telegram in the last step
SentKinds == [i \in 1..Len(log.sent) |-> log.sent[i].text.kind]

\* the rank endpoint's record of the last cycle lacks normalized_mark (no such
\* key, or null)
NormMissing ==
    /\ log.rank_data.t = "dict"
    /\ log.rank_data.items["normalized_mark"].t \in {"absent", "None"}

NormPresent ==
    /\ log.rank_data.t = "dict"
    /\ log.rank_data.items["normalized_mark"].t \notin {"absent", "None"}

\* C1: once the loop is entered (a cycle has run), no cycle ends the program
\* with an exception, whatever the probe, the rank call (any parsed JSON body)
\* and the notification delivery did.
C1_NoFatalOnceSteady == cycles > 0 => pc \in {"run", "sleep"}

\* C2: in a cycle whose connectivity probe fails, no request goes to the rank
\* endpoint, exactly one notification, the network-down text, is attempted, the
\* history is not changed and the cycle ends normally.
C2_ProbeDownSkipsCycle ==
    (InCycle /\ log.sock = "OSError") =>
        /\ log.request = <<>>
        /\ SentKinds = <<"internet_down">>
        /\ log.samples = <<>>
        /\ norm_history = log.history_before
        /\ log.raised = ""
        /\ pc \in {"run", "sleep"}

\* a probe failure in a cycle that follows a successful one
C2_Witness ==
    /\ InCycle
    /\ log.sock = "OSError"
    /\ norm_history # <<>>
    /\ pc = "sleep"

\* C3: a cycle whose rank call returns None sends the single "unreachable"
\* text, one whose record lacks normalized_mark sends the single, different
\* "missing normalized_mark" text; both leave the history unchanged and send no
\* report; a sample is appended only in a cycle whose record has normalized_mark.
C3_SkippedCycleKeepsHistory ==
    InCycle =>
        /\ (log.request # <<>> /\ log.rank_data.t = "None") =>
              /\ SentKinds = <<"api_unreachable">>
              /\ log.samples = <<>>
              /\ norm_history = log.history_before
        /\ (log.request # <<>> /\ NormMissing) =>
              /\ SentKinds = <<"missing_normalized_mark">>
              /\ log.samples = <<>>
              /\ norm_history = log.history_before
        /\ (log.samples # <<>> \/ norm_history # log.history_before) =>
              /\ NormPresent
              /\ log.samples = <<log.rank_data.items["normalized_mark"]>>

\* the rank endpoint answers {} after a cycle that put a sample in the history
C3_Witness ==
    /\ InCycle
    /\ log.rank_data = EmptyDict(RkKeys)
    /\ norm_history # <<>>
    /\ SentKinds = <<"missing_normalized_mark">>

\* the startup record lacks (no key, or null) one of total_marks, set, branch
SheetLacksField ==
    /\ response_data.t = "dict"
    /\ \E k \in {"total_marks", "set", "branch"} :
          response_data.items[k].t \in {"absent", "None"}

SheetComplete ==
    /\ response_data.t = "dict"
    /\ \A k \in {"total_marks", "set", "branch"} :
          response_data.items[k].t \notin {"absent", "None"}

\* C4: when the startup fetch returns None or a record lacking total_marks, set
\* or branch, main returns without raising, with no notification, no cycle and
\* no rank call; with all three present exactly one "started" text carrying the
\* marks, branch and set is attempted, the loop is entered, and the
\* response-sheet endpoint is called once in all.
C4_StartupFetch ==
    /\ calls.sheet <= 1
    /\ (calls.sheet = 1 /\ (response_data.t = "None" \/ SheetLacksField)) =>
          /\ pc = "returned"
          /\ calls = [NoCalls EXCEPT !.sheet = 1]
          /\ cycles = 0
          /\ log.sent = <<>>
    /\ SheetComplete =>
          /\ calls.sheet = 1
          /\ pc \in {"run", "sleep", "raised"}
          /\ log.step = "startup" =>
                /\ pc = "run"
                /\ calls.telegram = 1
                /\ Len(log.sent) = 1
                /\ log.sent[1].text =
                      [kind |-> "started",
                       marks |-> response_data.items["total_marks"],
                       branch |-> response_data.items["branch"],
                       set_num |-> response_data.items["set"],
                       minutes |-> 15]
          /\ InCycle => \A i \in 1..Len(log.sent) : SentKinds[i] # "started"
    /\ pc \in {"run", "sleep"} => SheetComplete

\* the response sheet came back without its branch, and main returned
C4_Witness ==
    /\ response_data.t = "dict"
    /\ response_data.items["branch"].t = "absent"
    /\ response_data.items["total_marks"] = Num(45500)
    /\ response_data.items["set"] = Num(2)
    /\ pc = "returned"

\* one of the three required configuration values is unset or empty
EnvMissing ==
    \E k \in {"RESPONSE_SHEET_URL", "TELEGRAM_BOT_TOKEN", "TELEGRAM_CHAT_ID"} :
        env[k] \in {Unset, ""}

\* C5: with a required configuration value missing main returns before any
\* network activity (no fetch, no notification, no probe, no cycle); with all
\* three present startup goes on to the response-sheet fetch.
C5_ConfigValidation ==
    /\ EnvMissing =>
          /\ pc \in {"main", "returned"}
          /\ calls = NoCalls
          /\ cycles = 0
          /\ response_data = Absent
          /\ log.step = "startup" => log.sent = <<>>
    /\ (~EnvMissing /\ pc # "main") => calls.sheet = 1

\* only the chat id is missing, and main has returned
C5_Witness ==
    /\ env.RESPONSE_SHEET_URL = "set"
    /\ env.TELEGRAM_BOT_TOKEN = "set"
    /\ env.TELEGRAM_CHAT_ID = Unset
    /\ pc = "returned"

\* the report sent in the last cycle, if one was
Reported == InCycle /\ SentKinds = <<"report">>
Report == log.sent[1].text

\* C6: the buffer holds exactly the last min(count, N) appended values, oldest
\* first; it is never longer than N; and the rolling average reported is the
\* mean (to 2 decimals) of exactly those values.
C6_BufferIsLastN ==
    LET n == Len(appended)
        k == Min(n, HISTORY_SIZE)
        lastk == SubSeq(appended, n - k + 1, n)
    IN  /\ norm_history = lastk
        /\ Len(norm_history) <= HISTORY_SIZE
        /\ Reported =>
              /\ Report.rolling.txt = "mean"
              /\ Report.rolling.k = k
              /\ Report.rolling.mean % 10 = 0
              /\ Abs(Report.rolling.mean * k - SumV(lastk)) <= 5 * k

\* a sample has been evicted, and the report is about the samples that stayed
C6_Witness ==
    /\ Len(appended) > HISTORY_SIZE
    /\ appended[1] = Num(52000)
    /\ norm_history = SubSeq(appended, 2, Len(appended))
    /\ Reported
    /\ Report.rolling.mean = 50000

\* C7: in a cycle whose record has normalized_mark (a number, the raw mark
\* being one too) a report is sent, the current mark is the newest sample of
\* the history the mean is taken over, and the report shows k/N with
\* N = 3600 // 900 and k = min(successful cycles so far, N) >= 1; marks 50.0
\* then 52.0 report 51.0 with 2/N.
C7_CurrentSampleInMean ==
    /\ (/\ InCycle
        /\ NormPresent
        /\ IsNumber(log.rank_data.items["normalized_mark"])
        /\ IsNumber(response_data.items["total_marks"])) =>
          /\ log.raised = ""
          /\ Reported
          /\ norm_history # <<>>
          /\ norm_history[Len(norm_history)] = log.rank_data.items["normalized_mark"]
          /\ Report.rolling.txt = "mean"
          /\ Report.rolling.N = 3600 \div 900
          /\ Report.rolling.k = Min(successes, 3600 \div 900)
          /\ Report.rolling.k >= 1
          /\ Abs(Report.rolling.mean * Report.rolling.k - SumV(norm_history))
                <= 5 * Report.rolling.k
    /\ (Reported /\ appended = <<Num(50000), Num(52000)>>) =>
          /\ Report.rolling.mean = 51000
          /\ Report.rolling.k = 2

\* two successful cycles, 50.0 then 52.0: the second reports 51.0 with 2/4
C7_Witness ==
    /\ Reported
    /\ appended = <<Num(50000), Num(52000)>>
    /\ Report.rolling = [txt |-> "mean", mean |-> 51000, k |-> 2, N |-> 4]

-----------------------------------------------------------------------------
(* Properties of format_message, under SpecFormat *)

\* where each field's value appears in the message
RdCell == [total_marks |-> "raw", total_positive |-> "correct",
           total_positive_percentage |-> "correct_pct", one_mark_negative |-> "neg1",
           two_marks_negative |-> "neg2", total_attempted |-> "attempted"]
RkCell == [normalized_mark |-> "norm", score_estimate |-> "score", rank_estimate |-> "rank",
           rank_normalized |-> "norm_rank", rank_in_set |-> "rank_in_set",
           total_in_set |-> "total_in_set", total_in_all_sets |-> "all_sets"]

\* the record has no such key, or null under it
Missing(d, k) == d.items[k].t \in {"absent", "None"}

Formatted == result.fn = "format_message"

\* every field but set: N/A when absent, the value when present
CellsShowNA(rd, rk, msg) ==
    /\ \A k \in DOMAIN RdCell :
          IF Missing(rd, k) THEN msg[RdCell[k]] = NA
          ELSE msg[RdCell[k]].txt = "value" /\ msg[RdCell[k]].val = rd.items[k]
    /\ \A k \in DOMAIN RkCell :
          IF Missing(rk, k) THEN msg[RkCell[k]] = NA
          ELSE msg[RkCell[k]].txt = "value" /\ msg[RkCell[k]].val = rk.items[k]
    /\ (Missing(rk, "normalized_mark") \/ Missing(rd, "total_marks")) <=>
          msg.delta.txt = "N/A"

\* C8 as stated: format_message never raises and every absent field, set
\* included, is rendered as "N/A" where its value would appear.
C8_EveryAbsentFieldIsNA ==
    Formatted =>
        /\ result.out.raised = ""
        /\ CellsShowNA(args.rd, result.rk, result.out.msg)
        /\ args.rd.items["set"].t = "absent" => result.out.msg.set_label = Str("N/A")

\* C8, amended: format_message never raises and every absent field other than
\* set is rendered as "N/A"; a record without the set key shows "?" in the
\* "Set ? Rank:" label, and a null set shows as None.
C8_AbsentIsNAExceptSet ==
    Formatted =>
        /\ result.out.raised = ""
        /\ CellsShowNA(args.rd, result.rk, result.out.msg)
        /\ args.rd.items["set"].t = "absent" => result.out.msg.set_label = Str("?")
        /\ args.rd.items["set"].t # "absent" =>
              result.out.msg.set_label = args.rd.items["set"]

\* records without set, total_marks and normalized_mark have been formatted
C8_Witness ==
    /\ Formatted
    /\ args.rd.items["set"].t = "absent"
    /\ args.rd.items["total_marks"].t = "absent"
    /\ result.rk.items["normalized_mark"].t = "absent"
    /\ result.out.raised = ""
    /\ result.out.msg.raw = NA
    /\ result.out.msg.set_label = Str("?")

-----------------------------------------------------------------------------
(* Properties of fmt_delta, under SpecDelta *)

DeltaDone == result.fn = "fmt_delta"
BothNumbers == IsNumber(args.normalised) /\ IsNumber(args.raw)
\* normalised - raw, in thousandths
Diff == args.normalised.v - args.raw.v

\* C9 as stated: for numeric marks the up-arrow is shown when normalised - raw
\* is positive, the down-arrow when it is negative, and "no change" exactly
\* when it is zero.
C9_SignOfDifference ==
    (DeltaDone /\ BothNumbers) =>
        /\ Diff > 0 => result.out.txt = "up +"
        /\ Diff < 0 => result.out.txt = "down "
        /\ Diff = 0 <=> result.out.txt = "no change"

\* C9, amended: the arrow follows the sign of the difference rounded to 2
\* decimals: up with "+" and the rounded delta when that is positive, down with
\* the signed rounded delta when it is negative, "no change" exactly when it is
\* zero, which is so for every |normalised - raw| < 0.005; "N/A" when either
\* mark is None.
C9_SignOfRoundedDelta ==
    DeltaDone =>
        /\ (args.normalised.t = "None" \/ args.raw.t = "None") <=> result.out.txt = "N/A"
        /\ BothNumbers =>
              /\ result.out.raised = ""
              /\ result.out.delta % 10 = 0
              /\ Abs(result.out.delta - Diff) <= 5
              /\ result.out.delta > 0 <=> result.out.txt = "up +"
              /\ result.out.delta < 0 <=> result.out.txt = "down "
              /\ result.out.delta = 0 <=> result.out.txt = "no change"
              /\ Abs(Diff) < 5 => result.out.txt = "no change"
              /\ Diff > 5 => result.out.txt = "up +"
              /\ Diff < 0 - 5 => result.out.txt = "down "

\* normalised is 0.004 above raw, and "no change" is shown
C9_Witness ==
    /\ DeltaDone
    /\ BothNumbers
    /\ Diff = 4
    /\ result.out.txt = "no change"

====
